---- MODULE Spec2Model ----
(***************************************************************************)
(* Model of script.py: a TCP connect scanner.  main parses the ports      *)
(* argument, resolves the target, runs scan_port for every port on a      *)
(* ThreadPoolExecutor through executor.map, consumes the results in the   *)
(* order of the ports and prints a summary.                               *)
(*                                                                         *)
(* Strings are sequences of one-character strings.  The executor is the   *)
(* CPython ThreadPoolExecutor: submit puts a work item on a FIFO queue    *)
(* and starts a thread while fewer than max_workers exist and no thread   *)
(* is idle; a worker takes the head of the queue, skips it if its future  *)
(* was cancelled, runs it otherwise; shutdown(wait=True) joins the        *)
(* threads, which exit once the queue is empty.                           *)
(*                                                                         *)
(* resolve_host fails by socket.gaierror, as its docstring says.  A       *)
(* KeyboardInterrupt is delivered to the main thread inside the try       *)
(* block of main; a repeated one may end the join of shutdown early, in   *)
(* which case main returns while worker threads still run.                *)
(***************************************************************************)
EXTENDS Integers, Sequences, FiniteSets, TLC

\* ------------------------------------------------------------------ bounds
MaxPorts == 3

MaxWorkers == 2

\* longest ports argument enumerated character by character
MaxLen == 4

\* ------------------------------------------------------- program constants
MinPort == 1

MaxPort == 65535

ExitOk == 0

ExitBadPorts == 2

ExitResolve == 3

ExitInterrupted == 130

\* ------------------------------------------------------------ parse_ports
Digits == <<"0", "1", "2", "3", "4", "5", "6", "7", "8", "9">>

DigitSet == {Digits[i] : i \in 1..Len(Digits)}

DigitVal(c) == (CHOOSE i \in 1..Len(Digits) : Digits[i] = c) - 1

max(a, b) == IF a >= b THEN a ELSE b

min(a, b) == IF a <= b THEN a ELSE b

\* str.strip(): drop leading and trailing blanks
RECURSIVE lstrip(_)
lstrip(s) == IF s # <<>> /\ Head(s) = " " THEN lstrip(Tail(s)) ELSE s

RECURSIVE rstrip(_)
rstrip(s) == IF s # <<>> /\ s[Len(s)] = " " THEN rstrip(SubSeq(s, 1, Len(s) - 1)) ELSE s

strip(s) == rstrip(lstrip(s))

\* position of the first occurrence of character c in s, 0 when absent
RECURSIVE find(_, _, _)
find(s, c, i) == IF i > Len(s) THEN 0 ELSE IF s[i] = c THEN i ELSE find(s, c, i + 1)

\* str.split(","): the pieces between the commas, in order
RECURSIVE split(_, _)
split(s, c) ==
    LET k == find(s, c, 1)
    IN  IF k = 0 THEN <<s>>
        ELSE <<SubSeq(s, 1, k - 1)>> \o split(SubSeq(s, k + 1, Len(s)), c)

\* value of a non-empty string of decimal digits
RECURSIVE digitsVal(_)
digitsVal(s) == IF s = <<>> THEN 0 ELSE 10 * digitsVal(SubSeq(s, 1, Len(s) - 1)) + DigitVal(s[Len(s)])

unsigned(s) == IF s # <<>> /\ Head(s) \in {"+", "-"} THEN Tail(s) ELSE s

\* int(s) succeeds: blanks around, an optional sign, at least one digit
isInt(s) ==
    LET t == unsigned(strip(s))
    IN  t # <<>> /\ \A i \in 1..Len(t) : t[i] \in DigitSet

\* int(s) for a string on which it succeeds
int(s) ==
    LET t == strip(s)
    IN  IF t # <<>> /\ Head(t) = "-" THEN 0 - digitsVal(Tail(t)) ELSE digitsVal(unsigned(t))

\* a literal out of range raising ValueError instead of being dropped
partFailsOutOfRange(part) ==
    LET t == strip(part)
        k == find(t, "-", 1)
    IN  IF t = <<>> THEN FALSE
        ELSE IF k > 0
             THEN ~isInt(SubSeq(t, 1, k - 1)) \/ ~isInt(SubSeq(t, k + 1, Len(t)))
             ELSE ~isInt(t) \/ int(t) < MinPort \/ int(t) > MaxPort

\* a token of the ports argument raises ValueError
partFails(part) ==
    LET t == strip(part)
        k == find(t, "-", 1)
    IN  IF t = <<>> THEN FALSE
        ELSE IF k > 0
             THEN ~isInt(SubSeq(t, 1, k - 1)) \/ ~isInt(SubSeq(t, k + 1, Len(t)))
             ELSE ~isInt(t)

\* the range enumerated as written, an inverted range not swapped
partPortsNoSwap(part) ==
    LET t == strip(part)
        k == find(t, "-", 1)
    IN  IF t = <<>> THEN {}
        ELSE IF k > 0
             THEN LET begin == int(SubSeq(t, 1, k - 1))
                      end == int(SubSeq(t, k + 1, Len(t)))
                  IN  max(MinPort, begin)..min(MaxPort, end)
             ELSE LET p == int(t)
                  IN  IF MinPort <= p /\ p <= MaxPort THEN {p} ELSE {}

\* the ports one token adds to the set (the token does not raise)
partPorts(part) ==
    LET t == strip(part)
        k == find(t, "-", 1)
    IN  IF t = <<>> THEN {}
        ELSE IF k > 0
             THEN LET b0 == int(SubSeq(t, 1, k - 1))
                      e0 == int(SubSeq(t, k + 1, Len(t)))
                      begin == IF b0 > e0 THEN e0 ELSE b0
                      end == IF b0 > e0 THEN b0 ELSE e0
                  IN  max(MinPort, begin)..min(MaxPort, end)
             ELSE LET p == int(t)
                  IN  IF MinPort <= p /\ p <= MaxPort THEN {p} ELSE {}

\* the set listed largest first (sorted with reverse=True)
RECURSIVE sorted_desc(_)
sorted_desc(S) ==
    IF S = {} THEN <<>>
    ELSE LET m == CHOOSE x \in S : \A y \in S : y <= x
         IN  <<m>> \o sorted_desc(S \ {m})

\* sorted(ports): the members of a finite set of integers, ascending
RECURSIVE sorted(_)
sorted(S) ==
    IF S = {} THEN <<>>
    ELSE LET m == CHOOSE x \in S : \A y \in S : x <= y
         IN  <<m>> \o sorted(S \ {m})

\* parse_ports: ok is FALSE when int() raises ValueError on some token
parse_ports(ports_arg) ==
    LET parts == split(ports_arg, ",")
        bad == \E i \in 1..Len(parts) : partFails(parts[i])
    IN  IF bad THEN [ok |-> FALSE, ports |-> <<>>]
        ELSE [ok |-> TRUE,
              ports |-> sorted(UNION {partPorts(parts[i]) : i \in 1..Len(parts)})]

\* the list sorted largest first (sort with reverse=True)
RECURSIVE insert_desc(_, _)
insert_desc(x, s) ==
    IF s = <<>> THEN <<x>>
    ELSE IF x >= Head(s) THEN <<x>> \o s ELSE <<Head(s)>> \o insert_desc(x, Tail(s))

RECURSIVE sort_desc(_)
sort_desc(s) == IF s = <<>> THEN <<>> ELSE insert_desc(Head(s), sort_desc(Tail(s)))

\* list.sort(): the elements of a list in ascending order, repetitions kept
RECURSIVE insert(_, _)
insert(x, s) ==
    IF s = <<>> THEN <<x>>
    ELSE IF x <= Head(s) THEN <<x>> \o s ELSE <<Head(s)>> \o insert(x, Tail(s))

RECURSIVE sort(_)
sort(s) == IF s = <<>> THEN <<>> ELSE insert(Head(s), sort(Tail(s)))

\* ------------------------------------------------------------------ inputs
\* --ports values: the ranges 1-1 .. 1-MaxPorts, a list out of order, a
\* non-numeric token, a literal out of range, the empty string
PortsArgs ==
    {<<"1", "-", Digits[k + 1]>> : k \in 1..MaxPorts}
        \cup {<<"2", ",", "1">>, <<"x">>, <<"0">>, <<>>}

\* --workers values (type=int): negative, zero, positive
WorkersArgs == -1..MaxWorkers

\* --timeout values (type=float): negative, zero, positive
TimeoutArgs == {-1, 0, 1}

\* ------------------------------------------------------------------- state
VARIABLES
    ports_arg,       \* args.ports
    workers,         \* args.workers
    timeout,         \* args.timeout
    pc,              \* position of the main thread in main
    exc,             \* exception propagating in the main thread, "none" if none
    exit_code,       \* value main returned, -1 while it has not returned
    ports,           \* the parsed port list
    resolve_calls,   \* number of calls of resolve_host
    ip,              \* the resolved address, "none" while there is none
    nsub,            \* number of ports executor.map has submitted
    future,          \* future[i]: state of the future of ports[i]
    result,          \* result[i]: what the future of ports[i] holds
    work_queue,      \* the executor's FIFO queue of work items (indexes of ports)
    num_threads,     \* number of worker threads started
    idle_semaphore,  \* the executor's count of threads known to be idle
    probe,           \* probe[i]: position of the scan_port call on ports[i]
    started,         \* started[i]: number of scan_port calls on ports[i]
    open_sockets,    \* sockets created by scan_port and not yet closed
    idx,             \* number of results the for loop has consumed
    open_ports,      \* the open_ports list
    out,             \* the [OPEN] and Scanned lines printed, in order
    summary,         \* the open-port lists print_summary was called with
    to_cancel,       \* futures the result iterator has still to cancel
    interrupted      \* a KeyboardInterrupt was delivered to the main thread

vars ==
    <<ports_arg, workers, timeout, pc, exc, exit_code, ports, resolve_calls, ip,
      nsub, future, result, work_queue, num_threads, idle_semaphore, probe,
      started, open_sockets, idx, open_ports, out, summary, to_cancel, interrupted>>

inputs == <<ports_arg, workers, timeout>>

pool == <<future, result, work_queue, num_threads, idle_semaphore, probe, started, open_sockets>>

loop == <<idx, open_ports, out, summary>>

N == Len(ports)

Init ==
    /\ ports_arg \in PortsArgs
    /\ workers \in WorkersArgs
    /\ timeout \in TimeoutArgs
    /\ pc = "parse"
    /\ exc = "none"
    /\ exit_code = -1
    /\ ports = <<>>
    /\ resolve_calls = 0
    /\ ip = "none"
    /\ nsub = 0
    /\ future = <<>>
    /\ result = <<>>
    /\ work_queue = <<>>
    /\ num_threads = 0
    /\ idle_semaphore = 0
    /\ probe = <<>>
    /\ started = <<>>
    /\ open_sockets = 0
    /\ idx = 0
    /\ open_ports = <<>>
    /\ out = <<>>
    /\ summary = <<>>
    /\ to_cancel = <<>>
    /\ interrupted = FALSE

\* main returns code
Return(code) ==
    /\ pc' = "done"
    /\ exit_code' = code

Range(s) == {s[i] : i \in 1..Len(s)}

\* ------------------------------------------------- main, before the scan
\* ports = parse_ports(args.ports), except (ValueError, TypeError): return 2
\* (the per-port bookkeeping of the model gets its domain here)
ParsePorts ==
    /\ pc = "parse"
    /\ LET r == parse_ports(ports_arg)
       IN  /\ IF r.ok
              THEN /\ ports' = r.ports
                   /\ pc' = "check"
                   /\ UNCHANGED exit_code
              ELSE /\ Return(ExitBadPorts)
                   /\ UNCHANGED ports
           /\ future' = [i \in 1..Len(r.ports) |-> "NONE"]
           /\ result' = [i \in 1..Len(r.ports) |-> "none"]
           /\ probe' = [i \in 1..Len(r.ports) |-> "none"]
           /\ started' = [p \in Range(r.ports) |-> 0]
    /\ UNCHANGED <<inputs, exc, resolve_calls, ip, nsub, work_queue, num_threads,
                   idle_semaphore, open_sockets, loop, to_cancel, interrupted>>

\* the emptiness test left out: an empty port list goes on to resolution
no_ports_unchecked == FALSE

\* the test "not ports"
no_ports == ports = <<>>

\* if not ports: return 2
CheckPorts ==
    /\ pc = "check"
    /\ IF no_ports
       THEN Return(ExitBadPorts)
       ELSE /\ pc' = "resolve"
            /\ UNCHANGED exit_code
    /\ UNCHANGED <<inputs, exc, ports, resolve_calls, ip, nsub, pool, loop, to_cancel, interrupted>>

\* the resolution error swallowed: main goes on to the scan
OnResolveErrorIgnored ==
    /\ pc' = "pool"
    /\ UNCHANGED exit_code

\* except socket.gaierror: return 3
OnResolveError == Return(ExitResolve)

\* ip = resolve_host(args.target): gethostbyname answers or raises gaierror
ResolveHost ==
    /\ pc = "resolve"
    /\ resolve_calls' = resolve_calls + 1
    /\ \E resolved \in BOOLEAN :
          IF resolved
          THEN /\ ip' = "ip"
               /\ pc' = "pool"
               /\ UNCHANGED exit_code
          ELSE /\ OnResolveError
               /\ UNCHANGED ip
    /\ UNCHANGED <<inputs, exc, ports, nsub, pool, loop, to_cancel, interrupted>>

\* ---------------------------------------------------------- the executor
\* one thread more than --workers asks for
thread_limit_plus_one == workers + 1

\* max_workers=args.workers: the number of threads the executor may start
thread_limit == workers

\* probes inside scan_port: entered and not yet returned
in_flight == {i \in 1..N : probe[i] \in {"socket", "connect"}}

\* with ThreadPoolExecutor(max_workers=args.workers): the constructor raises
\* ValueError when max_workers <= 0, which no except clause of main catches
CreatePool ==
    /\ pc = "pool"
    /\ IF thread_limit <= 0
       THEN /\ exc' = "ValueError"
            /\ pc' = "raised"
       ELSE /\ pc' = "submit"
            /\ UNCHANGED exc
    /\ UNCHANGED <<inputs, exit_code, ports, resolve_calls, ip, nsub, pool, loop,
                   to_cancel, interrupted>>

\* executor.map(..., ports) submits one call per element of ports, in order,
\* before it returns the result iterator.  submit: a PENDING future, a work
\* item on the queue, and a new thread unless an idle one is known or
\* max_workers threads exist
Submit ==
    /\ pc = "submit"
    /\ LET i == nsub + 1
       IN  /\ future' = [future EXCEPT ![i] = "PENDING"]
           /\ work_queue' = Append(work_queue, i)
           /\ nsub' = i
           /\ IF idle_semaphore > 0
              THEN /\ idle_semaphore' = idle_semaphore - 1
                   /\ UNCHANGED num_threads
              ELSE /\ num_threads' = IF num_threads < thread_limit
                                     THEN num_threads + 1 ELSE num_threads
                   /\ UNCHANGED idle_semaphore
           /\ pc' = IF i = N THEN "wait" ELSE "submit"
    /\ UNCHANGED <<inputs, exc, exit_code, ports, resolve_calls, ip, result, probe,
                   started, open_sockets, loop, to_cancel, interrupted>>

\* the lambda probing the first port whatever its argument
lambda_first(p) == ports[1]

\* lambda p: scan_port(ip, p, args.timeout): the port the call on p probes
lambda_port(p) == p

\* a free worker thread takes the head of the queue; the future is PENDING:
\* it becomes RUNNING and the thread enters scan_port
WorkerRun ==
    /\ work_queue # <<>>
    /\ Cardinality(in_flight) < num_threads
    /\ LET i == Head(work_queue)
           p == lambda_port(ports[i])
       IN  /\ future[i] = "PENDING"
           /\ future' = [future EXCEPT ![i] = "RUNNING"]
           /\ probe' = [probe EXCEPT ![i] = "socket"]
           /\ started' = [started EXCEPT ![p] = @ + 1]
    /\ work_queue' = Tail(work_queue)
    /\ UNCHANGED <<inputs, pc, exc, exit_code, ports, resolve_calls, ip, nsub, result,
                   num_threads, idle_semaphore, open_sockets, loop, to_cancel, interrupted>>

\* a free worker thread takes the head of the queue; the future was
\* cancelled: the work item is dropped without calling scan_port
WorkerSkip ==
    /\ work_queue # <<>>
    /\ Cardinality(in_flight) < num_threads
    /\ future[Head(work_queue)] = "CANCELLED"
    /\ work_queue' = Tail(work_queue)
    /\ idle_semaphore' = idle_semaphore + 1
    /\ UNCHANGED <<inputs, pc, exc, exit_code, ports, resolve_calls, ip, nsub, future,
                   result, num_threads, probe, started, open_sockets, loop, to_cancel,
                   interrupted>>

\* connect without a timeout blocking for ever: the work item never ends
FinishNever(i, r) == FALSE

\* the work item of ports[i] ends: the future holds r, the thread is idle
Finish(i, r) ==
    /\ future' = [future EXCEPT ![i] = "FINISHED"]
    /\ result' = [result EXCEPT ![i] = r]
    /\ probe' = [probe EXCEPT ![i] = "returned"]
    /\ idle_semaphore' = idle_semaphore + 1

\* scan_port, socket.socket(AF_INET, SOCK_STREAM): outside the try block, so
\* an OSError of the creation (no descriptor left) leaves scan_port
ProbeSocket(i) ==
    /\ probe[i] = "socket"
    /\ \E created \in BOOLEAN :
          IF created
          THEN /\ open_sockets' = open_sockets + 1
               /\ probe' = [probe EXCEPT ![i] = "connect"]
               /\ UNCHANGED <<future, result, idle_semaphore>>
          ELSE /\ Finish(i, "OSError")
               /\ UNCHANGED open_sockets
    /\ UNCHANGED <<inputs, pc, exc, exit_code, ports, resolve_calls, ip, nsub, work_queue,
                   num_threads, started, loop, to_cancel, interrupted>>

\* the socket used without a with block and never closed
ProbeConnectNoClose(i) ==
    /\ probe[i] = "connect"
    /\ IF timeout < 0
       THEN Finish(i, "ValueError")
       ELSE \E connected \in BOOLEAN : Finish(i, IF connected THEN "True" ELSE "False")
    /\ UNCHANGED <<inputs, pc, exc, exit_code, ports, resolve_calls, ip, nsub, work_queue,
                   num_threads, started, open_sockets, loop, to_cancel, interrupted>>

\* the probe appending the open port to open_ports itself, in its worker thread
ProbeConnectAppends(i) ==
    /\ probe[i] = "connect"
    /\ open_sockets' = open_sockets - 1
    /\ \E connected \in BOOLEAN :
          /\ Finish(i, IF connected THEN "True" ELSE "False")
          /\ open_ports' = IF connected THEN Append(open_ports, ports[i]) ELSE open_ports
    /\ UNCHANGED <<inputs, pc, exc, exit_code, ports, resolve_calls, ip, nsub, work_queue,
                   num_threads, started, idx, out, summary, to_cancel, interrupted>>

\* scan_port, the body of the with block: s.settimeout raises ValueError on a
\* negative timeout (outside the try); connect_ex answers 0 (True), another
\* code (False) or raises OSError (False).  The with block closes the socket
ProbeConnect(i) ==
    /\ probe[i] = "connect"
    /\ open_sockets' = open_sockets - 1
    /\ IF timeout < 0
       THEN Finish(i, "ValueError")
       ELSE \E connected \in BOOLEAN : Finish(i, IF connected THEN "True" ELSE "False")
    /\ UNCHANGED <<inputs, pc, exc, exit_code, ports, resolve_calls, ip, nsub, work_queue,
                   num_threads, started, loop, to_cancel, interrupted>>

\* ------------------------------------------------------ main, the scan
\* the iterator yielding the results last port first
awaited_last == N - idx

\* the future whose result the iterator of executor.map yields next: the
\* iterator yields the results in the order of ports
awaited == idx + 1

\* the futures the iterator still holds after it popped the awaited one, in
\* the order in which its finally clause cancels them (last port first)
pending_fs == [k \in 1..(N - idx - 1) |-> N - k + 1]

\* the exception leaves the for loop: the result iterator cancels the
\* futures in fs, then the with statement shuts the executor down
Unwind(e, fs) ==
    /\ exc' = e
    /\ to_cancel' = fs
    /\ pc' = IF fs = <<>> THEN "shutdown" ELSE "cancel"

\* next(results): future.result() blocks until the awaited future is
\* finished, returns its value or raises the exception it holds
WaitResult ==
    /\ pc = "wait"
    /\ future[awaited] = "FINISHED"
    /\ IF result[awaited] \in {"True", "False"}
       THEN /\ pc' = "body"
            /\ UNCHANGED <<exc, to_cancel>>
       ELSE Unwind(result[awaited], pending_fs)
    /\ UNCHANGED <<inputs, exit_code, ports, resolve_calls, ip, nsub, pool, loop, interrupted>>

\* the loop counting from 0 (enumerate without start=1)
BodyFromZero ==
    /\ pc = "body"
    /\ LET port == ports[idx + 1]
           is_open == result[awaited] = "True"
           line == [kind |-> "Scanned", val |-> idx]
       IN  IF is_open
           THEN /\ open_ports' = Append(open_ports, port)
                /\ out' = out \o <<[kind |-> "OPEN", val |-> port], line>>
           ELSE /\ out' = Append(out, line)
                /\ UNCHANGED open_ports
    /\ idx' = idx + 1
    /\ pc' = IF idx + 1 = N THEN "shutdown" ELSE "wait"
    /\ UNCHANGED <<inputs, exc, exit_code, ports, resolve_calls, ip, nsub, pool, summary,
                   to_cancel, interrupted>>

\* the body of the for loop on (idx, (port, is_open))
Body ==
    /\ pc = "body"
    /\ LET port == ports[idx + 1]
           is_open == result[awaited] = "True"
           line == [kind |-> "Scanned", val |-> idx + 1]
       IN  IF is_open
           THEN /\ open_ports' = Append(open_ports, port)
                /\ out' = out \o <<[kind |-> "OPEN", val |-> port], line>>
           ELSE /\ out' = Append(out, line)
                /\ UNCHANGED open_ports
    /\ idx' = idx + 1
    /\ pc' = IF idx + 1 = N THEN "shutdown" ELSE "wait"
    /\ UNCHANGED <<inputs, exc, exit_code, ports, resolve_calls, ip, nsub, pool, summary,
                   to_cancel, interrupted>>

\* future.cancel() on the next future of the iterator's finally clause: only
\* a future that is still PENDING becomes CANCELLED
Cancel ==
    /\ pc = "cancel"
    /\ LET i == Head(to_cancel)
       IN  future' = [future EXCEPT ![i] = IF @ = "PENDING" THEN "CANCELLED" ELSE @]
    /\ to_cancel' = Tail(to_cancel)
    /\ pc' = IF Tail(to_cancel) = <<>> THEN "shutdown" ELSE "cancel"
    /\ UNCHANGED <<inputs, exc, exit_code, ports, resolve_calls, ip, nsub, result, work_queue,
                   num_threads, idle_semaphore, probe, started, open_sockets, loop,
                   interrupted>>

\* the interrupt swallowed: main goes on to the summary
OnKeyboardInterruptPass ==
    /\ pc' = "summary"
    /\ UNCHANGED exit_code

\* except KeyboardInterrupt: return 130
OnKeyboardInterrupt == Return(ExitInterrupted)

\* the end of the with block: executor.shutdown(wait=True) joins the worker
\* threads, which exit when the queue is empty and no work item runs; then
\* the pending exception, if any, goes on
Shutdown ==
    /\ pc = "shutdown"
    /\ work_queue = <<>>
    /\ in_flight = {}
    /\ CASE exc = "none" -> pc' = "summary" /\ UNCHANGED exit_code
         [] exc = "KeyboardInterrupt" -> OnKeyboardInterrupt
         [] OTHER -> pc' = "raised" /\ UNCHANGED exit_code
    /\ UNCHANGED <<inputs, exc, ports, resolve_calls, ip, nsub, pool, loop, to_cancel,
                   interrupted>>

\* KeyboardInterrupt is raised in the main thread inside the try block:
\*   in the constructor of the executor: the except clause runs at once;
\*   in executor.map, between two submits: no future is cancelled;
\*   in future.result(): the awaited future and those of fs are cancelled;
\*   in the body of the loop: the futures of fs are cancelled;
\*   in the join of shutdown: the join is given up, the except clause runs
Interrupt ==
    /\ pc \in {"pool", "submit", "wait", "body", "shutdown"}
    /\ interrupted' = TRUE
    /\ CASE pc = "pool" -> OnKeyboardInterrupt /\ exc' = "KeyboardInterrupt" /\ UNCHANGED to_cancel
         [] pc = "submit" -> Unwind("KeyboardInterrupt", <<>>) /\ UNCHANGED exit_code
         [] pc = "wait" -> Unwind("KeyboardInterrupt", <<awaited>> \o pending_fs) /\ UNCHANGED exit_code
         [] pc = "body" -> Unwind("KeyboardInterrupt", pending_fs) /\ UNCHANGED exit_code
         [] pc = "shutdown" -> OnKeyboardInterrupt /\ exc' = "KeyboardInterrupt" /\ UNCHANGED to_cancel
    /\ UNCHANGED <<inputs, ports, resolve_calls, ip, nsub, pool, loop>>

\* open_ports.sort(); print_summary(args.target, ip, open_ports, elapsed); return 0
PrintSummary ==
    /\ pc = "summary"
    /\ open_ports' = sort(open_ports)
    /\ summary' = Append(summary, sort(open_ports))
    /\ Return(ExitOk)
    /\ UNCHANGED <<inputs, exc, ports, resolve_calls, ip, nsub, pool, idx, out, to_cancel,
                   interrupted>>

Next ==
    \/ ParsePorts
    \/ CheckPorts
    \/ ResolveHost
    \/ CreatePool
    \/ Submit
    \/ WorkerRun
    \/ WorkerSkip
    \/ \E i \in 1..N : ProbeSocket(i)
    \/ \E i \in 1..N : ProbeConnect(i)
    \/ WaitResult
    \/ Body
    \/ Cancel
    \/ Shutdown
    \/ Interrupt
    \/ PrintSummary

Spec == Init /\ [][Next]_vars

\* --------------------------------------------------------------- fairness
\* the steps of the main thread inside the with block, the interrupt apart
MainStep ==
    \/ Submit
    \/ WaitResult
    \/ Body
    \/ Cancel
    \/ Shutdown
    \/ PrintSummary

\* the steps of the worker threads
WorkerStep ==
    \/ WorkerRun
    \/ WorkerSkip
    \/ \E i \in 1..N : ProbeSocket(i)
    \/ \E i \in 1..N : ProbeConnect(i)

\* the scan with the main thread and the worker threads scheduled fairly and
\* every connection attempt ending (the timeout bounds it)
LiveSpec == Init /\ [][Next]_vars /\ WF_vars(MainStep) /\ WF_vars(WorkerStep)

\* ------------------------------------------------- parse_ports on its own
\* the characters of the enumerated ports arguments
Alphabet == {"0", "1", "2", ",", "-", "+", " ", "x"}

\* ports arguments at the limits of the port range, and the documented ones
LongArgs ==
    {<<"6", "5", "5", "3", "4", "-", "6", "5", "5", "3", "7">>,
     <<"6", "5", "5", "3", "7", "-", "6", "5", "5", "3", "4">>,
     <<"0", ",", "7", "0", "0", "0", "0", ",", "4", "4", "3">>,
     <<"8", "0", "0", "0", "-", "7", "9", "9", "9">>,
     <<"8", "0", ",", "2", "2", ",", "8", "0">>,
     <<"2", "2", ",", ",", "8", "0">>,
     <<"2", "2", ",", "a", "b", "c">>,
     <<"6", "5", "5", "3", "5">>,
     <<"6", "5", "5", "3", "6">>,
     <<" ", "7", " ", "-", " ", "9", " ">>,
     <<"-", "5", ",", "3">>}

\* every string of at most MaxLen characters of Alphabet, and LongArgs
ParseArgs == UNION {[1..k -> Alphabet] : k \in 0..MaxLen} \cup LongArgs

ParseInit ==
    /\ ports_arg \in ParseArgs
    /\ workers = 1
    /\ timeout = 1
    /\ pc = "parse"
    /\ exc = "none"
    /\ exit_code = -1
    /\ ports = <<>>
    /\ resolve_calls = 0
    /\ ip = "none"
    /\ nsub = 0
    /\ future = <<>>
    /\ result = <<>>
    /\ work_queue = <<>>
    /\ num_threads = 0
    /\ idle_semaphore = 0
    /\ probe = <<>>
    /\ started = <<>>
    /\ open_sockets = 0
    /\ idx = 0
    /\ open_ports = <<>>
    /\ out = <<>>
    /\ summary = <<>>
    /\ to_cancel = <<>>
    /\ interrupted = FALSE

ParseNext ==
    \/ ParsePorts
    \/ CheckPorts

\* main up to the test of the parsed port list, on every ports argument
ParseSpec == ParseInit /\ [][ParseNext]_vars

\* ------------------------------------------------------------ properties
NoneStarted == \A p \in DOMAIN started : started[p] = 0

Reported(p) == \E k \in 1..Len(out) : out[k] = [kind |-> "OPEN", val |-> p]

Terminated == pc \in {"done", "raised"}

\* C1: with a worker bound W >= 1, the number of probes that have entered
\* scan_port and not yet returned never exceeds W, also when there are
\* more ports than workers.
C1_AtMostWInFlight == workers >= 1 => Cardinality(in_flight) <= workers

\* all W workers are probing while further ports wait in the queue
C1_Witness ==
    /\ workers >= 1
    /\ N > workers
    /\ Cardinality(in_flight) = workers
    /\ work_queue # <<>>

\* C2: no port is ever probed twice, and when a scan that was not interrupted
\* has returned 0, scan_port was started exactly once for every port parsed.
C2_EachPortProbedOnce ==
    /\ \A p \in DOMAIN started : started[p] <= 1
    /\ (pc = "done" /\ exit_code = ExitOk /\ ~interrupted)
          => \A p \in Range(ports) : started[p] = 1

\* a scan of several ports has completed
C2_Witness ==
    /\ pc = "done"
    /\ exit_code = ExitOk
    /\ N >= 2
    /\ \A p \in Range(ports) : started[p] = 1

\* C3: after a KeyboardInterrupt inside the worker-pool block the summary is
\* never printed, main does not raise, and when it has returned it has
\* returned 130.
C3_InterruptGives130 ==
    interrupted =>
        /\ summary = <<>>
        /\ pc \notin {"summary", "raised"}
        /\ pc = "done" => exit_code = ExitInterrupted

\* an interrupt came after part of the results was consumed, and main returned
C3_Witness ==
    /\ interrupted
    /\ pc = "done"
    /\ exit_code = ExitInterrupted
    /\ idx >= 1
    /\ idx < N

\* C4: once the interrupt is delivered, no further probe is started.
C4_NoProbeStartsAfterInterrupt == [][interrupted => started' = started]_vars

\* C5: scan_port never raises: no future ever holds an exception.
C5_ScanPortNeverRaises ==
    \A i \in 1..N : result[i] \notin {"OSError", "ValueError"}

\* C6: once ports have been submitted to the pool, main ends only by
\* returning 0 or 130.
C6_OnlyCompletedOrInterrupted ==
    (Terminated /\ nsub > 0) => (pc = "done" /\ exit_code \in {ExitOk, ExitInterrupted})

\* C7: with workers <= 0 or timeout <= 0 nothing is submitted, no probe
\* starts, no summary is printed and main does not end by an uncaught
\* exception.
C7_InvalidConfigRejected ==
    (workers <= 0 \/ timeout <= 0) =>
        /\ nsub = 0
        /\ NoneStarted
        /\ summary = <<>>
        /\ pc # "raised"

\* C8: resolve_host is called at most once, nothing is submitted and no probe
\* starts unless it has succeeded, and when it fails main has returned 3 with
\* no probe started and no summary printed.
C8_ResolveBeforeProbes ==
    /\ resolve_calls <= 1
    /\ (nsub > 0 \/ ~NoneStarted) => ip # "none"
    /\ (resolve_calls = 1 /\ ip = "none") =>
          /\ pc = "done"
          /\ exit_code = ExitResolve
          /\ nsub = 0
          /\ NoneStarted
          /\ summary = <<>>

\* resolution was attempted and failed
C8_Witness ==
    /\ resolve_calls = 1
    /\ ip = "none"
    /\ pc = "done"
    /\ exit_code = ExitResolve

\* C9: when the ports argument is malformed or parses to no port, main
\* never calls resolve_host, never submits a probe, and returns 2.
C9_BadPortsExit2 ==
    LET r == parse_ports(ports_arg)
    IN  (~r.ok \/ r.ports = <<>>) =>
            /\ resolve_calls = 0
            /\ nsub = 0
            /\ NoneStarted
            /\ pc \in {"parse", "check", "done"}
            /\ pc = "done" => exit_code = ExitBadPorts

\* a well-formed argument with no port in range ended in exit code 2
C9_Witness ==
    /\ parse_ports(ports_arg).ok
    /\ ports_arg # <<>>
    /\ pc = "done"
    /\ exit_code = ExitBadPorts

\* main is blocked in future.result() on a probe that has not completed
Blocked == pc = "wait" /\ future[awaited] # "FINISHED"

StrictlyAscending(s) == \A k \in 1..(Len(s) - 1) : s[k] < s[k + 1]

\* the scan ran to its end: main returned 0
Completed == pc = "done" /\ exit_code = ExitOk

\* the ports whose probe returned true
OpenSet == {ports[i] : i \in {j \in 1..N : result[j] = "True"}}

\* C11: every open-port list handed to print_summary is strictly ascending.
C11_SummaryAscending ==
    /\ \A k \in 1..Len(summary) : StrictlyAscending(summary[k])
    /\ Completed => Len(summary) = 1

\* a summary listing several open ports was printed
C11_Witness ==
    /\ Completed
    /\ Len(summary) = 1
    /\ Len(summary[1]) >= 2

\* C12: in a completed scan the final open-port list holds exactly the ports
\* whose probe returned true, each once; it is empty when every probe failed.
C12_SummaryIsOpenSet ==
    Completed =>
        /\ Len(summary) = 1
        /\ Range(summary[1]) = OpenSet
        /\ Len(summary[1]) = Cardinality(OpenSet)
        /\ open_ports = summary[1]
        /\ (\A i \in 1..N : result[i] = "False") => summary[1] = <<>>

\* a completed scan with an open port and a closed port
C12_Witness ==
    /\ Completed
    /\ \E i, j \in 1..N : result[i] = "True" /\ result[j] = "False"
    /\ Len(summary) = 1
    /\ Len(summary[1]) = Cardinality(OpenSet)

\* C13: when print_summary is about to be called or has been called, every
\* port has a finished probe and no probe is queued or in flight.
C13_SummaryAfterDrain ==
    (pc = "summary" \/ summary # <<>>) =>
        /\ \A i \in 1..N : future[i] = "FINISHED" /\ probe[i] = "returned"
        /\ work_queue = <<>>
        /\ in_flight = {}

\* main is about to print the summary of a scan of several ports
C13_Witness ==
    /\ pc = "summary"
    /\ N >= 2
    /\ \A i \in 1..N : future[i] = "FINISHED"

\* C14 as stated: whenever main has returned 0 or 130, no probe socket is open.
C14_NoSocketOpenWhenMainReturns ==
    (pc = "done" /\ exit_code \in {ExitOk, ExitInterrupted}) => open_sockets = 0

\* C14 amended: the open sockets are exactly those of the probes inside the
\* with block of scan_port, so none is open once no probe is in flight, and
\* none is open when main has returned 0.
C14_SocketsClosedWhenProbesReturn ==
    /\ open_sockets = Cardinality({i \in 1..N : probe[i] = "connect"})
    /\ in_flight = {} => open_sockets = 0
    /\ Completed => open_sockets = 0

\* main returned 130 and every probe that opened a socket has closed it
C14_Witness ==
    /\ pc = "done"
    /\ exit_code = ExitInterrupted
    /\ \E i \in 1..N : probe[i] = "returned" /\ result[i] \in {"True", "False", "ValueError"}
    /\ in_flight = {}
    /\ open_sockets = 0

\* the non-empty tokens of the ports argument, trimmed
Tokens ==
    LET parts == split(ports_arg, ",")
    IN  {strip(parts[i]) : i \in 1..Len(parts)} \ {<<>>}

HasDash(t) == \E k \in 1..Len(t) : t[k] = "-"

FirstDash(t) == CHOOSE k \in 1..Len(t) : t[k] = "-" /\ \A j \in 1..(k - 1) : t[j] # "-"

RangeBegin(t) == SubSeq(t, 1, FirstDash(t) - 1)

RangeEnd(t) == SubSeq(t, FirstDash(t) + 1, Len(t))

\* a token of the grammar: an integer, or two integers around its first "-"
ValidToken(t) ==
    IF HasDash(t) THEN isInt(RangeBegin(t)) /\ isInt(RangeEnd(t)) ELSE isInt(t)

\* the ports a valid token stands for
TokenPorts(t) ==
    IF HasDash(t)
    THEN LET a == int(RangeBegin(t))
             b == int(RangeEnd(t))
             lo == IF a <= b THEN a ELSE b
             hi == IF a <= b THEN b ELSE a
         IN  (IF lo < 1 THEN 1 ELSE lo)..(IF hi > 65535 THEN 65535 ELSE hi)
    ELSE {int(t)} \cap (1..65535)

\* C15: on a ports argument whose non-empty tokens are all integers or ranges
\* of two integers, parse_ports returns the strictly ascending list of the
\* union of the in-range literals and of the ranges, endpoints put in order
\* and clamped to [1,65535].
C15_ParseValidSpec ==
    [][(pc = "parse" /\ \A t \in Tokens : ValidToken(t)) =>
          /\ pc' = "check"
          /\ StrictlyAscending(ports')
          /\ \A k \in 1..Len(ports') : 1 <= ports'[k] /\ ports'[k] <= 65535
          /\ Range(ports') = UNION {TokenPorts(t) : t \in Tokens}]_vars

\* the inverted range 2-1 was parsed to the ports 1 and 2
C15_Witness ==
    /\ ports_arg = <<"2", "-", "1">>
    /\ pc = "check"
    /\ ports = <<1, 2>>

\* a token that is an integer in the usual sense (a negative one included),
\* or two such integers around a "-"
IntegerOrRange(t) ==
    \/ isInt(t)
    \/ \E k \in 1..Len(t) :
          t[k] = "-" /\ isInt(SubSeq(t, 1, k - 1)) /\ isInt(SubSeq(t, k + 1, Len(t)))

\* C16 as stated: parse_ports fails exactly when some non-empty token is
\* neither an integer, of any sign, nor a range of integers.
C16_FailsOnlyOnNonNumeric ==
    [][pc = "parse" =>
          (pc' = "done" <=> \E t \in Tokens : ~IntegerOrRange(t))]_vars

\* C16 amended: parse_ports fails exactly when some non-empty token without
\* "-" is not an integer or some token with "-" has a non-integer part
\* before or after its first "-" (so a negative literal fails); when it does
\* not fail, every literal in [1,65535] is kept and nothing outside is.
C16_FailsOnlyOnInvalidToken ==
    [][pc = "parse" =>
          /\ pc' = "done" <=> \E t \in Tokens : ~ValidToken(t)
          /\ pc' = "check" =>
                /\ \A t \in Tokens :
                      (~HasDash(t) /\ 1 <= int(t) /\ int(t) <= 65535)
                          => int(t) \in Range(ports')
                /\ \A k \in 1..Len(ports') : 1 <= ports'[k] /\ ports'[k] <= 65535]_vars

\* the literal 0 was dropped and the literal 1 kept
C16_Witness ==
    /\ ports_arg = <<"0", ",", "1">>
    /\ pc = "check"
    /\ ports = <<1>>

\* a probe raised instead of returning
ProbeRaised == \E i \in 1..N : result[i] \in {"OSError", "ValueError"}

\* C17: once the pool exists (a non-empty port list, W >= 1), a scan in which
\* no probe raises and no interrupt comes ends with the summary printed and
\* exit code 0.
C17_ScanTerminates ==
    (pc = "submit") ~> ((Completed /\ summary # <<>>) \/ interrupted \/ ProbeRaised)

\* a scan that found no open port completed with the summary printed
C17_Witness ==
    /\ Completed
    /\ ~interrupted
    /\ summary = << <<>> >>
    /\ \A i \in 1..N : result[i] = "False"

IsScanned(e) == e.kind = "Scanned"

IsOpen(e) == e.kind = "OPEN"

\* the Scanned lines printed, in order
ScannedLines == SelectSeq(out, IsScanned)

\* the [OPEN] lines printed, in order
OpenLines == SelectSeq(out, IsOpen)

\* C18: the k-th Scanned line shows k, one line is printed per result
\* consumed, no more results are consumed than there are ports, and in a
\* completed scan the last line shows the number of ports.
C18_ScannedCountsUp ==
    /\ \A k \in 1..Len(ScannedLines) : ScannedLines[k].val = k
    /\ Len(ScannedLines) = idx
    /\ idx <= N
    /\ Completed => (idx = N /\ ScannedLines[N].val = N)

\* a completed scan of several ports printed its last Scanned line
C18_Witness ==
    /\ Completed
    /\ N >= 2
    /\ Len(ScannedLines) = N
    /\ ScannedLines[N].val = N

\* C19: every step that writes open_ports or the scanned count is a step of
\* the main thread in the loop body or at the final sort, and changes nothing
\* a worker thread writes.
C19_OnlyMainWrites ==
    [][(open_ports' # open_ports \/ idx' # idx) =>
          /\ pc \in {"body", "summary"}
          /\ pc' # pc
          /\ probe' = probe
          /\ future' = future
          /\ work_queue' = work_queue]_vars

\* main has recorded an open port while a worker is inside scan_port
C19_Witness ==
    /\ Len(open_ports) >= 1
    /\ idx >= 1
    /\ in_flight # {}

\* the number of Scanned lines printed before position m of out
ScannedBefore(m) == Len(SelectSeq(SubSeq(out, 1, m - 1), IsScanned))

\* C20: the ports are consumed smallest first: the port list is ascending, an
\* [OPEN] line printed after k Scanned lines names the (k+1)-th port, the
\* [OPEN] lines ascend, and when the scanned count is k the probes of the k
\* smallest ports are finished, so the count never exceeds the number of
\* finished probes.
C20_ConsumedInPortOrder ==
    /\ StrictlyAscending(ports)
    /\ \A m \in 1..Len(out) :
          IsOpen(out[m]) => out[m].val = ports[ScannedBefore(m) + 1]
    /\ \A k \in 1..(Len(OpenLines) - 1) : OpenLines[k].val < OpenLines[k + 1].val
    /\ \A k \in 1..idx : future[k] = "FINISHED"
    /\ idx <= Cardinality({i \in 1..N : future[i] = "FINISHED"})

\* the scanned count lags: a probe is finished that main has not yet consumed
C20_Witness ==
    /\ pc = "wait"
    /\ idx >= 1
    /\ Len(OpenLines) >= 1
    /\ idx < Cardinality({i \in 1..N : future[i] = "FINISHED"})

====
